---- MODULE Spec2Model ----
(***************************************************************************)
(* Finance Python Gateway Client (src/src/Client.py).                      *)
(*                                                                         *)
(* Python values are tagged records.  An object is its __dict__: the       *)
(* sequence of <<name, value>> pairs in insertion order.  A JSON text is   *)
(* a sequence of tokens; json.dumps emits tokens, json.loads reads them.   *)
(* A string token serves as an object key when a colon follows it.         *)
(***************************************************************************)
EXTENDS Integers, Sequences, FiniteSets, TLC

VARIABLES
    obj,          \* obj[s]: outcome of the caller's report-request constructor in slot s
    out,          \* out[s]: outcome of reportRequest.to_json() in slot s
    config,       \* the ClientConfig handed to every fetch_* call
    uuidDraws,    \* number of uuid.uuid4() draws made so far
    clock,        \* the last value datetime.datetime.now() returned
    pc,           \* pc[t]: position of thread t inside its current fetch_* call
    call,         \* call[t]: the locals of thread t's current call
    stages,       \* stages[t]: the pipeline stages the current call has completed
    posts,        \* posts[t]: how many times the current call invoked requests.post
    wire          \* the requests put on the network so far, oldest first

vars == <<obj, out, config, uuidDraws, clock, pc, call, stages, posts, wire>>

callVars == <<config, uuidDraws, clock, pc, call, stages, posts, wire>>

\* ---------------------------------------------------------------- bounds

MaxSorters == 2
MaxPage == 1
MaxCalls == 2
MaxClock == 1

\* --------------------------------------------------------- Python values

None == [t |-> "none"]
PyBool(b) == [t |-> "bool", b |-> b]
PyInt(n) == [t |-> "int", n |-> n]
PyStr(s) == [t |-> "str", s |-> s]
PyList(es) == [t |-> "list", es |-> es]
PyObj(d) == [t |-> "obj", d |-> d]
\* a value json.dumps cannot encode and that has no __dict__ (datetime.date)
PyDate == [t |-> "date"]

\* the result of an evaluation: a value, or the exception it raised
Ok(v) == [ok |-> TRUE, val |-> v, err |-> ""]
Raise(e) == [ok |-> FALSE, val |-> None, err |-> e]

\* ---------------------------------------------- __dict__ (insertion order)

Keys(d) == [i \in 1..Len(d) |-> d[i][1]]
HasKey(d, k) == \E i \in 1..Len(d) : d[i][1] = k
Get(d, k) == d[CHOOSE i \in 1..Len(d) : d[i][1] = k][2]
\* self.k = v: an existing attribute keeps its place, a new one goes last
SetAttr(d, k, v) ==
    IF HasKey(d, k)
    THEN [i \in 1..Len(d) |-> IF d[i][1] = k THEN <<k, v>> ELSE d[i]]
    ELSE Append(d, <<k, v>>)

\* ------------------------------------------------------------------ enums

ApiVersion == "v2_10_0"

ActionType ==
    { "PEOPLE_PROFILE", "DRIVER_PROFILE", "TAXI_PROFILE", "TAXI_DRIVER_MAPPING",
      "VEHICLE_MODEL_PROFILE", "DRIVER_TRIP_TRANSACTION", "DRIVER_TRIP_SUMMARY",
      "DRIVER_RECENT_TRIP_SUMMARY", "DRIVER_BLOCK_REASON", "DRIVER_CANCEL_REASON",
      "DRIVER_CREDIT_DEBIT" }

DateType == {"CREATE_TIME", "CREATE_DATE"}

\* -------------------------------------------------------- report requests

Sorter(field, DESC) == PyObj(<< <<"field", PyStr(field)>>, <<"DESC", PyBool(DESC)>> >>)

BaseReportRequest ==
    << <<"fromStaff", PyBool(FALSE)>>,
       <<"fromPortal", PyBool(FALSE)>>,
       <<"pagingEnabled", PyBool(TRUE)>>,
       <<"pageSize", PyInt(10)>>,
       <<"pageIndex", PyInt(0)>>,
       <<"exportEnabled", PyBool(FALSE)>>,
       <<"sorters", PyList(<< >>)>> >>

PeopleProfileReportRequest ==
    Ok(PyObj(BaseReportRequest \o
        << <<"peopleId", None>>,
           <<"withDriverTripSummary", PyBool(FALSE)>>,
           <<"withoutEmptyDriverTripSummary", PyBool(FALSE)>> >>))

TaxiProfileReportRequest ==
    Ok(PyObj(BaseReportRequest \o << <<"taxiId", None>> >>))

VehicleModelProfileReportRequest ==
    Ok(PyObj(BaseReportRequest \o << <<"modelId", None>> >>))

DriverProfileReportRequest ==
    Ok(PyObj(BaseReportRequest \o
        << <<"driverId", None>>,
           <<"withDriverTripSummary", PyBool(FALSE)>>,
           <<"withoutEmptyDriverTripSummary", PyBool(FALSE)>> >>))

DriverTripTransactionReportRequest ==
    Ok(PyObj(BaseReportRequest \o
        << <<"transactionId", None>>,
           <<"driverId", None>>,
           <<"tripId", None>>,
           <<"transactionTypes", PyList(<< >>)>>,
           <<"transactionCategories", PyList(<< >>)>>,
           <<"minAmountInRupee", None>>,
           <<"maxAmountInRupee", None>>,
           <<"minAmountInCents", None>>,
           <<"maxAmountInCents", None>>,
           <<"description", None>>,
           <<"dateType", PyStr("CREATE_TIME")>>,
           <<"fromDate", None>>,
           <<"toDate", None>>,
           <<"createdBy", None>>,
           <<"withDriverProfile", PyBool(FALSE)>> >>))

DriverTripSummaryReportRequest == DriverTripTransactionReportRequest

DriverBlockReasonSummaryReportRequest ==
    Ok(PyObj(BaseReportRequest \o << <<"driverId", None>> >>))

DriverCancelReasonProfileReportRequest ==
    Ok(PyObj(BaseReportRequest \o << <<"reasonId", None>> >>))

\* the parent constructor runs, then the right-hand side `false` is looked up:
\* no such name exists, so the constructor raises and returns no object
DriverCreditDebitReportRequest ==
    IF DriverTripTransactionReportRequest.ok THEN Raise("NameError")
    ELSE DriverTripTransactionReportRequest

ReportRequestClasses ==
    { "PeopleProfileReportRequest", "TaxiProfileReportRequest",
      "VehicleModelProfileReportRequest", "DriverProfileReportRequest",
      "DriverTripTransactionReportRequest", "DriverTripSummaryReportRequest",
      "DriverBlockReasonSummaryReportRequest", "DriverCancelReasonProfileReportRequest",
      "DriverCreditDebitReportRequest" }

\* cls(): calling the constructor of report-request class cls
New(cls) ==
    CASE cls = "PeopleProfileReportRequest" -> PeopleProfileReportRequest
      [] cls = "TaxiProfileReportRequest" -> TaxiProfileReportRequest
      [] cls = "VehicleModelProfileReportRequest" -> VehicleModelProfileReportRequest
      [] cls = "DriverProfileReportRequest" -> DriverProfileReportRequest
      [] cls = "DriverTripTransactionReportRequest" -> DriverTripTransactionReportRequest
      [] cls = "DriverTripSummaryReportRequest" -> DriverTripSummaryReportRequest
      [] cls = "DriverBlockReasonSummaryReportRequest" -> DriverBlockReasonSummaryReportRequest
      [] cls = "DriverCancelReasonProfileReportRequest" -> DriverCancelReasonProfileReportRequest
      [] cls = "DriverCreditDebitReportRequest" -> DriverCreditDebitReportRequest

\* ------------------------------------------------------------- JSON text

Tok(k, s, n) == [k |-> k, s |-> s, n |-> n]
Punct(s) == Tok("punct", s, 0)
StrTok(s) == Tok("str", s, 0)
IntTok(n) == Tok("int", "", n)
LitTok(s) == Tok("lit", s, 0)

\* json.dumps(..., indent=4)
Indent == 4
\* a newline followed by the indentation of nesting level `level`
NewLine(level) == Tok("nl", "", Indent * level)

\* str ordering of the attribute names of this module (code-point order)
KeyOrder ==
    << "DESC", "actionType", "apiVersion", "createdBy", "dateType", "description",
       "driverId", "exportEnabled", "field", "fromDate", "fromPortal", "fromStaff",
       "maxAmountInCents", "maxAmountInRupee", "messageId", "minAmountInCents",
       "minAmountInRupee", "modelId", "pageIndex", "pageSize", "pagingEnabled",
       "peopleId", "reasonId", "requestData", "requestDate", "sorters", "taxiId",
       "toDate", "transactionCategories", "transactionId", "transactionTypes",
       "tripId", "validateOnly", "withDriverProfile", "withDriverTripSummary",
       "withTaxiDriverMapping", "withoutEmptyDriverTripSummary" >>

Rank(k) == CHOOSE i \in 1..Len(KeyOrder) : KeyOrder[i] = k

\* sort_keys=True: the items of a dict ordered by key
SortKeys(d) ==
    LET sorted == SelectSeq(KeyOrder, LAMBDA k : HasKey(d, k))
    IN  [n \in 1..Len(sorted) |-> <<sorted[n], Get(d, sorted[n])>>]

\* sort_keys=False would emit the items in insertion order
InsertionOrder(d) == d

ItemOrder(d) == SortKeys(d)

RECURSIVE Encodable(_)
\* whether json.dumps with default=lambda o: o.__dict__ can encode v
Encodable(v) ==
    CASE v.t = "date" -> FALSE
      [] v.t = "list" -> \A i \in 1..Len(v.es) : Encodable(v.es[i])
      [] v.t = "obj" -> \A i \in 1..Len(v.d) : Encodable(v.d[i][2])
      [] OTHER -> TRUE

RECURSIVE Dumps(_, _)
RECURSIVE DumpItems(_, _)
RECURSIVE DumpElems(_, _)
\* the items of a non-empty dict, one per line
DumpItems(items, level) ==
    IF Len(items) = 0 THEN << >>
    ELSE <<NewLine(level), StrTok(items[1][1]), Punct(":")>>
            \o Dumps(items[1][2], level)
            \o (IF Len(items) > 1 THEN <<Punct(",")>> ELSE << >>)
            \o DumpItems(Tail(items), level)
\* the elements of a non-empty list, one per line, in list order
DumpElems(es, level) ==
    IF Len(es) = 0 THEN << >>
    ELSE <<NewLine(level)>>
            \o Dumps(es[1], level)
            \o (IF Len(es) > 1 THEN <<Punct(",")>> ELSE << >>)
            \o DumpElems(Tail(es), level)
\* the text json.dumps emits for an encodable value nested `level` deep
Dumps(v, level) ==
    CASE v.t = "none" -> <<LitTok("null")>>
      [] v.t = "bool" -> <<LitTok(IF v.b THEN "true" ELSE "false")>>
      [] v.t = "int" -> <<IntTok(v.n)>>
      [] v.t = "str" -> <<StrTok(v.s)>>
      [] v.t = "list" ->
            IF Len(v.es) = 0 THEN <<Punct("["), Punct("]")>>
            ELSE <<Punct("[")>> \o DumpElems(v.es, level + 1)
                    \o <<NewLine(level), Punct("]")>>
      [] v.t = "obj" ->
            IF Len(v.d) = 0 THEN <<Punct("{"), Punct("}")>>
            ELSE <<Punct("{")>> \o DumpItems(ItemOrder(v.d), level + 1)
                    \o <<NewLine(level), Punct("}")>>

\* Serializer.to_json
to_json(self) ==
    IF Encodable(self) THEN Ok(Dumps(self, 0)) ELSE Raise("AttributeError")

\* ------------------------------------- the caller's report request objects

Slots == {"a", "b"}
SorterFields == {"driverId", "transactionId"}
CallerFields == {"driverId", "tripId"}

\* a = cls(); b = cls(): the caller builds two requests of one kind
Construct(cls) ==
    /\ \A s \in Slots : obj[s] = Raise("unbound")
    /\ obj' = [s \in Slots |-> New(cls)]
    /\ UNCHANGED <<out, callVars>>

\* reportRequest.k = 223
Assign(s, k) ==
    /\ obj[s].ok
    /\ out[s] = Raise("unset")
    /\ obj' = [obj EXCEPT ![s] = Ok(PyObj(SetAttr(obj[s].val.d, k, PyInt(223))))]
    /\ UNCHANGED <<out, callVars>>

\* reportRequest.sorters.append(Sorter(f, True))
AppendSorter(s, f) ==
    /\ obj[s].ok
    /\ out[s] = Raise("unset")
    /\ Len(Get(obj[s].val.d, "sorters").es) < MaxSorters
    /\ obj' = [obj EXCEPT ![s] = Ok(PyObj(SetAttr(obj[s].val.d, "sorters",
                    PyList(Append(Get(obj[s].val.d, "sorters").es, Sorter(f, TRUE))))))]
    /\ UNCHANGED <<out, callVars>>

\* a.to_json(); b.to_json(): both requests are serialized, then discarded
ToJson ==
    /\ \A s \in Slots : obj[s].ok /\ out[s] = Raise("unset")
    /\ out' = [s \in Slots |-> to_json(obj[s].val)]
    /\ UNCHANGED <<obj, callVars>>

\* ------------------------------------------------------------ json.loads

\* field names collections.namedtuple rejects (not an identifier, a keyword,
\* a leading underscore)
InvalidFieldNames == {"error-code", "class", "_links"}

\* json_object_hook: namedtuple('Class', rawJson.keys())(*rawJson.values())
json_object_hook(rawJson) ==
    IF \E i \in 1..Len(rawJson) : rawJson[i][1] \in InvalidFieldNames
    THEN Raise("ValueError")
    ELSE Ok([t |-> "tuple", d |-> rawJson])

Parsed(v, next) == [ok |-> TRUE, val |-> v, err |-> "", next |-> next]
Failed(e) == [ok |-> FALSE, val |-> None, err |-> e, next |-> 0]
IsPunct(ts, i, s) == i <= Len(ts) /\ ts[i] = Punct(s)

RECURSIVE ParseValue(_, _)
RECURSIVE ParseElems(_, _, _)
RECURSIVE ParseMembers(_, _, _)
\* the elements of an array after its first one began at ts[i]
ParseElems(ts, i, acc) ==
    LET v == ParseValue(ts, i)
    IN  IF ~v.ok THEN v
        ELSE IF IsPunct(ts, v.next, ",")
             THEN ParseElems(ts, v.next + 1, Append(acc, v.val))
        ELSE IF IsPunct(ts, v.next, "]")
             THEN Parsed(PyList(Append(acc, v.val)), v.next + 1)
        ELSE Failed("JSONDecodeError")
\* the members of an object; a repeated key keeps its place and takes the
\* later value (dict), and the finished dict goes through the object hook
ParseMembers(ts, i, acc) ==
    IF ~(i <= Len(ts) /\ ts[i].k = "str" /\ IsPunct(ts, i + 1, ":"))
    THEN Failed("JSONDecodeError")
    ELSE LET v == ParseValue(ts, i + 2)
         IN  IF ~v.ok THEN v
             ELSE IF IsPunct(ts, v.next, ",")
                  THEN ParseMembers(ts, v.next + 1, SetAttr(acc, ts[i].s, v.val))
             ELSE IF IsPunct(ts, v.next, "}")
                  THEN LET made == json_object_hook(SetAttr(acc, ts[i].s, v.val))
                       IN  IF made.ok THEN Parsed(made.val, v.next + 1)
                           ELSE Failed(made.err)
             ELSE Failed("JSONDecodeError")
\* one JSON value starting at ts[i]
ParseValue(ts, i) ==
    IF i > Len(ts) THEN Failed("JSONDecodeError")
    ELSE CASE ts[i].k = "lit" ->
                Parsed(IF ts[i].s = "null" THEN None ELSE PyBool(ts[i].s = "true"), i + 1)
           [] ts[i].k = "int" -> Parsed(PyInt(ts[i].n), i + 1)
           [] ts[i].k = "str" -> Parsed(PyStr(ts[i].s), i + 1)
           [] ts[i] = Punct("[") ->
                IF IsPunct(ts, i + 1, "]") THEN Parsed(PyList(<< >>), i + 2)
                ELSE ParseElems(ts, i + 1, << >>)
           [] ts[i] = Punct("{") ->
                IF IsPunct(ts, i + 1, "}")
                THEN Parsed(json_object_hook(<< >>).val, i + 2)
                ELSE ParseMembers(ts, i + 1, << >>)
           [] OTHER -> Failed("JSONDecodeError")

\* json.loads: white space between tokens is skipped, one value is read, and
\* anything after it is an error
Loads(text) ==
    LET ts == SelectSeq(text, LAMBDA x : x.k # "nl")
        v == ParseValue(ts, 1)
    IN  IF ~v.ok THEN Raise(v.err)
        ELSE IF v.next <= Len(ts) THEN Raise("JSONDecodeError")
        ELSE Ok(v.val)

\* a lenient reader that turns undecodable text into None
LoadsOrNone(text) == IF Loads(text).ok THEN Loads(text) ELSE Ok(None)

json_to_object(rawJson) == Loads(rawJson)

\* getattr(o, name, None)
GetAttrOrNone(o, name) ==
    IF o.t = "tuple" /\ HasKey(o.d, name) THEN Ok(Get(o.d, name)) ELSE Ok(None)

\* o.name on a materialized response: only a namedtuple has fields
GetAttr(o, name) ==
    IF o.t = "tuple" /\ HasKey(o.d, name) THEN Ok(Get(o.d, name))
    ELSE Raise("AttributeError")

\* ------------------------------------------------------------------- HMAC

\* hmac.new(key, msg, sha256).hexdigest(): the digest is kept symbolic, so two
\* digests are equal exactly when key and message are; None has no encode()
generate_hmac(secretKey, rawJson) ==
    IF secretKey.t # "str" THEN Raise("AttributeError")
    ELSE Ok([alg |-> "sha256", key |-> secretKey.s, msg |-> rawJson])

\* ------------------------------------------------------------- transport

\* the outcome of one POST: the connection breaks before any response
\* arrives, or the gateway answers with a status and a body
ConnectionLost == [kind |-> "lost", status |-> 0, text |-> << >>]
Response(status, text) == [kind |-> "response", status |-> status, text |-> text]

Unsent == [sent |-> FALSE, url |-> "", body |-> << >>, hmac |-> None, contentType |-> ""]

\* the body sent with indentation stripped
post_http_request_compact(httpUrl, httpBody, hmac, reply) ==
    IF httpUrl.t # "str" THEN [invoked |-> FALSE, wire |-> Unsent, result |-> Raise("TypeError")]
    ELSE IF httpUrl.s = "" THEN [invoked |-> TRUE, wire |-> Unsent, result |-> Raise("MissingSchema")]
    ELSE [invoked |-> TRUE,
          wire |-> [sent |-> TRUE, url |-> httpUrl.s,
                    body |-> SelectSeq(httpBody, LAMBDA x : x.k # "nl"),
                    hmac |-> hmac, contentType |-> "application/json"],
          result |-> IF reply.kind = "lost" THEN Raise("ConnectionError")
                     ELSE Ok(reply.text)]

\* post_http_request: "Http url: " + None is a TypeError before anything is
\* sent; requests.post rejects a URL without a scheme before connecting;
\* otherwise the request goes out and the response text comes back whatever
\* the status
post_http_request(httpUrl, httpBody, hmac, reply) ==
    IF httpUrl.t # "str" THEN [invoked |-> FALSE, wire |-> Unsent, result |-> Raise("TypeError")]
    ELSE IF httpUrl.s = "" THEN [invoked |-> TRUE, wire |-> Unsent, result |-> Raise("MissingSchema")]
    ELSE [invoked |-> TRUE,
          wire |-> [sent |-> TRUE, url |-> httpUrl.s, body |-> httpBody,
                    hmac |-> hmac, contentType |-> "application/json"],
          result |-> IF reply.kind = "lost" THEN Raise("ConnectionError")
                     ELSE Ok(reply.text)]

\* ------------------------------------------------------------ components

ClientConfig(serviceEndpoint, hmacSecret, authToken, csrfToken) ==
    [serviceEndpoint |-> serviceEndpoint, hmacSecret |-> hmacSecret,
     authToken |-> authToken, csrfToken |-> csrfToken]

build_uat_client_config ==
    ClientConfig(PyStr("http://146.148.110.253:8080/proxy/finance/reporting"),
                 PyStr("keep-this-secret"), None, None)

\* str(uuid.uuid4()): the n-th draw; draws never repeat
uuid4(n) == PyStr("uuid-" \o ToString(n))
\* datetime.datetime.now().isoformat() at clock reading `now`
isoformat(now) == PyStr("T" \o ToString(now))

\* a messageId and requestDate made once, when the class is defined
GatewayRequestMemo(actionType, requestData, draw, now) ==
    PyObj(<< <<"apiVersion", PyStr(ApiVersion)>>,
             <<"messageId", uuid4(1)>>,
             <<"requestDate", isoformat(0)>>,
             <<"validateOnly", PyBool(FALSE)>>,
             <<"actionType", PyStr(actionType)>>,
             <<"requestData", requestData>> >>)

\* GatewayRequest.__init__, with the uuid draw and the clock reading it makes
GatewayRequest(actionType, requestData, draw, now) ==
    PyObj(<< <<"apiVersion", PyStr(ApiVersion)>>,
             <<"messageId", uuid4(draw)>>,
             <<"requestDate", isoformat(now)>>,
             <<"validateOnly", PyBool(FALSE)>>,
             <<"actionType", PyStr(actionType)>>,
             <<"requestData", requestData>> >>)

\* ------------------------------------------------------------- the wrappers

Wrappers ==
    { "fetch_people_profile", "fetch_driver_profile", "fetch_taxi_profile",
      "fetch_taxi_driver_mapping", "fetch_vehicle_model_profile",
      "fetch_driver_trip_transaction", "fetch_driver_trip_summary",
      "fetch_driver_recent_trip_summary", "fetch_driver_block_reason",
      "fetch_driver_cancel_reason", "fetch_driver_credit_debit" }

\* the ActionType each wrapper passes to GatewayRequest
FetchTag(w) ==
    CASE w = "fetch_people_profile" -> "PEOPLE_PROFILE"
      [] w = "fetch_driver_profile" -> "DRIVER_PROFILE"
      [] w = "fetch_taxi_profile" -> "TAXI_PROFILE"
      [] w = "fetch_taxi_driver_mapping" -> "TAXI_DRIVER_MAPPING"
      [] w = "fetch_vehicle_model_profile" -> "VEHICLE_MODEL_PROFILE"
      [] w = "fetch_driver_trip_transaction" -> "DRIVER_TRIP_TRANSACTION"
      [] w = "fetch_driver_trip_summary" -> "DRIVER_TRIP_SUMMARY"
      [] w = "fetch_driver_recent_trip_summary" -> "DRIVER_RECENT_TRIP_SUMMARY"
      [] w = "fetch_driver_block_reason" -> "DRIVER_BLOCK_REASON"
      [] w = "fetch_driver_cancel_reason" -> "DRIVER_CANCEL_REASON"
      [] w = "fetch_driver_credit_debit" -> "DRIVER_CREDIT_DEBIT"

\* the report-request classes written for each ActionType enumerant
RequestVariants(tag) ==
    CASE tag = "PEOPLE_PROFILE" -> {"PeopleProfileReportRequest"}
      [] tag = "DRIVER_PROFILE" -> {"DriverProfileReportRequest"}
      [] tag = "TAXI_PROFILE" -> {"TaxiProfileReportRequest"}
      [] tag = "TAXI_DRIVER_MAPPING" -> {}
      [] tag = "VEHICLE_MODEL_PROFILE" -> {"VehicleModelProfileReportRequest"}
      [] tag = "DRIVER_TRIP_TRANSACTION" -> {"DriverTripTransactionReportRequest"}
      [] tag = "DRIVER_TRIP_SUMMARY" -> {"DriverTripSummaryReportRequest"}
      [] tag = "DRIVER_RECENT_TRIP_SUMMARY" -> {}
      [] tag = "DRIVER_BLOCK_REASON" -> {"DriverBlockReasonSummaryReportRequest"}
      [] tag = "DRIVER_CANCEL_REASON" -> {"DriverCancelReasonProfileReportRequest"}
      [] tag = "DRIVER_CREDIT_DEBIT" -> {"DriverCreditDebitReportRequest"}

\* ------------------------------------------------------- the environment

\* the request test_fetch_driver_trip_transaction builds
TripTransactionTestRequest ==
    PyObj(SetAttr(SetAttr(SetAttr(SetAttr(SetAttr(
        DriverTripTransactionReportRequest.val.d,
        "driverId", PyInt(223)),
        "fromDate", PyStr("2019-01-01")),
        "toDate", PyStr("2019-12-31")),
        "withDriverProfile", PyBool(TRUE)),
        "sorters", PyList(<<Sorter("transactionId", TRUE)>>)))

\* the request test_fetch_driver_trip_summary builds
TripSummaryTestRequest ==
    PyObj(SetAttr(DriverTripSummaryReportRequest.val.d, "driverId", PyInt(223)))

\* a caller that assigns a datetime.date where the tests assign a string
DatedRequest ==
    PyObj(SetAttr(DriverTripSummaryReportRequest.val.d, "fromDate", PyDate))

CallerRequests == {TripTransactionTestRequest, TripSummaryTestRequest, DatedRequest}

Endpoints == {None, PyStr(""), build_uat_client_config.serviceEndpoint}
Secrets == {None, PyStr(""), build_uat_client_config.hmacSecret}
Configs == {ClientConfig(e, k, None, None) : e \in Endpoints, k \in Secrets}

\* the wrappers the module's own test run calls
ScriptWrappers == {"fetch_driver_trip_transaction", "fetch_driver_trip_summary"}

RECURSIVE Emit(_)
RECURSIVE EmitItems(_)
RECURSIVE EmitElems(_)
EmitItems(items) ==
    IF Len(items) = 0 THEN << >>
    ELSE <<StrTok(items[1][1]), Punct(":")>> \o Emit(items[1][2])
            \o (IF Len(items) > 1 THEN <<Punct(",")>> ELSE << >>)
            \o EmitItems(Tail(items))
EmitElems(es) ==
    IF Len(es) = 0 THEN << >>
    ELSE Emit(es[1]) \o (IF Len(es) > 1 THEN <<Punct(",")>> ELSE << >>)
            \o EmitElems(Tail(es))
\* the gateway's own JSON encoder: compact, members in the server's order
Emit(v) ==
    CASE v.t = "none" -> <<LitTok("null")>>
      [] v.t = "bool" -> <<LitTok(IF v.b THEN "true" ELSE "false")>>
      [] v.t = "int" -> <<IntTok(v.n)>>
      [] v.t = "str" -> <<StrTok(v.s)>>
      [] v.t = "list" -> <<Punct("[")>> \o EmitElems(v.es) \o <<Punct("]")>>
      [] v.t = "obj" -> <<Punct("{")>> \o EmitItems(v.d) \o <<Punct("}")>>

Transactions == PyObj(<< <<"transactions", PyList(<< >>)>> >>)
Summaries ==
    PyObj(<< <<"summaries", PyList(<<PyObj(<< <<"driverId", PyInt(223)>> >>)>>)>> >>)

\* JSON values the gateway answers with
ServerValues ==
    { None, PyList(<< >>), PyList(<<Transactions>>), PyObj(<< >>),
      Transactions,
      PyObj(<< <<"responseData", None>> >>),
      PyObj(<< <<"responseData", Transactions>> >>),
      PyObj(<< <<"responseData", Summaries>> >>),
      PyObj(<< <<"error-code", PyInt(500)>> >>),
      PyObj(<< <<"message", PyStr("denied")>>, <<"status", PyInt(403)>> >>) }

FullBody == Emit(PyObj(<< <<"responseData", Summaries>> >>))

\* texts that are not JSON: a cut-off body, trailing data, an HTML error page
MalformedBodies ==
    {SubSeq(FullBody, 1, n) : n \in 0..(Len(FullBody) - 1)}
        \cup {FullBody \o <<Punct("}")>>, <<Tok("junk", "<html>", 0)>>}

WellFormedBodies == {Emit(v) : v \in ServerValues}

Statuses == {200, 500}

Replies ==
    {ConnectionLost} \cup
    {Response(st, text) : st \in Statuses, text \in WellFormedBodies \cup MalformedBodies}

HealthyReplies == {ConnectionLost, Response(200, FullBody)}

\* --------------------------------------------------------- fetch_* calls

Threads == {"t1", "t2"}

NoCall ==
    [actionType |-> "", draw |-> 0, now |-> 0,
     rawRequest |-> Raise("unset"), hmac |-> Raise("unset"),
     posted |-> Unsent, status |-> 0,
     rawResponse |-> Raise("unset"), gatewayResponse |-> Raise("unset"),
     result |-> Raise("unset"), error |-> ""]

\* the caller's report request, which every envelope refers to
reportRequest == obj["a"].val

\* the caller asks for the next page of the same report request
NextPage ==
    /\ obj["a"].ok
    /\ Get(reportRequest.d, "pageIndex").n < MaxPage
    /\ obj' = [obj EXCEPT !["a"] = Ok(PyObj(SetAttr(reportRequest.d, "pageIndex",
                    PyInt(Get(reportRequest.d, "pageIndex").n + 1))))]
    /\ UNCHANGED <<out, callVars>>

\* fetch_*, first line: gatewayRequest = GatewayRequest(ActionType.X, reportRequest)
Fetch(t, w, now) ==
    /\ pc[t] \in {"idle", "returned", "raised"}
    /\ obj["a"].ok
    /\ uuidDraws < MaxCalls
    /\ now >= clock
    /\ uuidDraws' = uuidDraws + 1
    /\ clock' = now
    /\ call' = [call EXCEPT ![t] =
                    [NoCall EXCEPT !.actionType = FetchTag(w),
                                   !.draw = uuidDraws + 1,
                                   !.now = now]]
    /\ pc' = [pc EXCEPT ![t] = "built"]
    /\ stages' = [stages EXCEPT ![t] = <<"build">>]
    /\ posts' = [posts EXCEPT ![t] = 0]
    /\ UNCHANGED <<obj, out, config, wire>>

\* the envelope of thread t's call; requestData is the caller's object itself
gatewayRequest(t) ==
    GatewayRequest(call[t].actionType, reportRequest, call[t].draw, call[t].now)

\* leaving the call by an exception raised in the current stage
Abort(t, e) ==
    /\ pc' = [pc EXCEPT ![t] = "raised"]
    /\ call' = [call EXCEPT ![t].error = e]
    /\ UNCHANGED <<stages, posts, wire>>

\* process_gateway_request: rawRequest = gatewayRequest.to_json()
Serialize(t) ==
    /\ pc[t] = "built"
    /\ LET r == to_json(gatewayRequest(t))
       IN  IF r.ok
           THEN /\ call' = [call EXCEPT ![t].rawRequest = r]
                /\ pc' = [pc EXCEPT ![t] = "serialized"]
                /\ stages' = [stages EXCEPT ![t] = Append(@, "serialize")]
                /\ UNCHANGED <<posts, wire>>
           ELSE Abort(t, r.err)
    /\ UNCHANGED <<obj, out, config, uuidDraws, clock>>

\* process_gateway_request: hmac = generate_hmac(clientConfig.hmacSecret, rawRequest)
Sign(t) ==
    /\ pc[t] = "serialized"
    /\ LET h == generate_hmac(config.hmacSecret, call[t].rawRequest.val)
       IN  IF h.ok
           THEN /\ call' = [call EXCEPT ![t].hmac = h]
                /\ pc' = [pc EXCEPT ![t] = "signed"]
                /\ stages' = [stages EXCEPT ![t] = Append(@, "sign")]
                /\ UNCHANGED <<posts, wire>>
           ELSE Abort(t, h.err)
    /\ UNCHANGED <<obj, out, config, uuidDraws, clock>>

\* the messageId a receiver reads in a transmitted envelope
MessageIdOf(body) ==
    LET i == CHOOSE j \in 1..Len(body) : body[j] = StrTok("messageId")
    IN  body[i + 2].s

\* process_gateway_request: rawResponse = post_http_request(endpoint, rawRequest, hmac)
Transport(t, reply) ==
    /\ pc[t] = "signed"
    /\ LET p == post_http_request(config.serviceEndpoint, call[t].rawRequest.val,
                                  call[t].hmac.val, reply)
       IN  /\ posts' = [posts EXCEPT ![t] = @ + (IF p.invoked THEN 1 ELSE 0)]
           /\ wire' = IF p.wire.sent THEN Append(wire, MessageIdOf(p.wire.body)) ELSE wire
           /\ IF p.result.ok
              THEN /\ call' = [call EXCEPT ![t].posted = p.wire,
                                           ![t].status = reply.status,
                                           ![t].rawResponse = p.result]
                   /\ pc' = [pc EXCEPT ![t] = "transported"]
                   /\ stages' = [stages EXCEPT ![t] = Append(@, "transport")]
              ELSE /\ call' = [call EXCEPT ![t].posted = p.wire,
                                           ![t].error = p.result.err]
                   /\ pc' = [pc EXCEPT ![t] = "raised"]
                   /\ UNCHANGED stages
    /\ UNCHANGED <<obj, out, config, uuidDraws, clock>>

\* process_gateway_request: return json_to_object(rawResponse)
Parse(t) ==
    /\ pc[t] = "transported"
    /\ LET r == json_to_object(call[t].rawResponse.val)
       IN  IF r.ok
           THEN /\ call' = [call EXCEPT ![t].gatewayResponse = r]
                /\ pc' = [pc EXCEPT ![t] = "parsed"]
                /\ stages' = [stages EXCEPT ![t] = Append(@, "parse")]
                /\ UNCHANGED <<posts, wire>>
           ELSE Abort(t, r.err)
    /\ UNCHANGED <<obj, out, config, uuidDraws, clock>>

\* fetch_*, last line: return gatewayResponse.responseData
Extract(t) ==
    /\ pc[t] = "parsed"
    /\ LET r == GetAttr(call[t].gatewayResponse.val, "responseData")
       IN  IF r.ok
           THEN /\ call' = [call EXCEPT ![t].result = r]
                /\ pc' = [pc EXCEPT ![t] = "returned"]
                /\ UNCHANGED <<stages, posts, wire>>
           ELSE Abort(t, r.err)
    /\ UNCHANGED <<obj, out, config, uuidDraws, clock>>

InitCalls ==
    /\ out = [s \in Slots |-> Raise("unset")]
    /\ uuidDraws = 0
    /\ clock = 0
    /\ pc = [t \in Threads |-> "idle"]
    /\ call = [t \in Threads |-> NoCall]
    /\ stages = [t \in Threads |-> << >>]
    /\ posts = [t \in Threads |-> 0]
    /\ wire = << >>

\* one caller thread, any configuration, any request, any answer
Init ==
    /\ InitCalls
    /\ config \in Configs
    /\ \E r \in CallerRequests : obj = [s \in Slots |-> IF s = "a" THEN Ok(r) ELSE Raise("unbound")]

Next ==
    \/ \E w \in Wrappers : Fetch("t1", w, clock)
    \/ Serialize("t1")
    \/ Sign("t1")
    \/ \E reply \in Replies : Transport("t1", reply)
    \/ Parse("t1")
    \/ Extract("t1")
    \/ NextPage

Spec == Init /\ [][Next]_vars

\* two caller threads sharing the UAT configuration and one report request
InitConcurrent ==
    /\ InitCalls
    /\ config = build_uat_client_config
    /\ obj = [s \in Slots |-> IF s = "a" THEN Ok(TripTransactionTestRequest)
                              ELSE Raise("unbound")]

NextConcurrent ==
    \E t \in Threads :
        \/ \E w \in ScriptWrappers, now \in clock..MaxClock : Fetch(t, w, now)
        \/ Serialize(t)
        \/ Sign(t)
        \/ \E reply \in HealthyReplies : Transport(t, reply)
        \/ Parse(t)
        \/ Extract(t)
        \/ NextPage

SpecConcurrent == InitConcurrent /\ [][NextConcurrent]_vars

InitRequest ==
    /\ obj = [s \in Slots |-> Raise("unbound")]
    /\ out = [s \in Slots |-> Raise("unset")]
    /\ config = build_uat_client_config
    /\ uuidDraws = 0
    /\ clock = 0
    /\ pc = [t \in Threads |-> "idle"]
    /\ call = [t \in Threads |-> NoCall]
    /\ stages = [t \in Threads |-> << >>]
    /\ posts = [t \in Threads |-> 0]
    /\ wire = << >>

NextRequest ==
    \/ \E cls \in ReportRequestClasses : Construct(cls)
    \/ \E s \in Slots, k \in CallerFields : Assign(s, k)
    \/ \E s \in Slots, f \in SorterFields : AppendSorter(s, f)
    \/ ToJson

SpecRequest == InitRequest /\ [][NextRequest]_vars

\* ================================================================ claims

\* ------------------------------------------------------------------- C1

\* C1: whenever a call has handed a request to the transport, the body it
\* sent is the very string produced by the one serialization of the envelope,
\* and the HMAC header is generate_hmac(config.hmacSecret, that body).
C1_SignedBodyIsSentBody ==
    \A t \in Threads :
        call[t].posted.sent =>
            /\ call[t].posted.body = call[t].rawRequest.val
            /\ Ok(call[t].posted.hmac) = generate_hmac(config.hmacSecret, call[t].posted.body)

\* a request went out although the caller's report request has changed since
\* it was serialized
C1_Witness ==
    \E t \in Threads :
        /\ call[t].posted.sent
        /\ call[t].rawResponse.ok
        /\ to_json(gatewayRequest(t)) # call[t].rawRequest

\* ------------------------------------------------------------------- C2

PipelineOrder == <<"build", "serialize", "sign", "transport", "parse">>

\* the transport stage failed in the specification's sense: no response, or a
\* response whose status is not 2xx
TransportFailed(t) ==
    \/ call[t].error = "ConnectionError"
    \/ call[t].rawResponse.ok /\ call[t].status \notin 200..299

\* C2: the stages of a call complete in the order build, serialize, sign,
\* transport, parse, the transport is invoked at most once, and after a failed
\* stage (a failed transport included) no later stage runs.
C2_AsClaimed ==
    \A t \in Threads :
        /\ stages[t] = SubSeq(PipelineOrder, 1, Len(stages[t]))
        /\ posts[t] <= 1
        /\ TransportFailed(t) => ~call[t].gatewayResponse.ok /\ pc[t] # "parsed"

\* ------------------------------------------------------------------- C3

\* the requestDate a receiver reads in a transmitted envelope
RequestDateOf(body) ==
    LET i == CHOOSE j \in 1..Len(body) : body[j] = StrTok("requestDate")
    IN  body[i + 2].s

\* C3: the messageIds of the transmitted envelopes are pairwise distinct, the
\* envelopes of calls in flight carry different messageIds, and every envelope
\* carries the uuid drawn and the clock read for its own call.
C3_FreshEnvelopePerCall ==
    /\ \A i, j \in 1..Len(wire) : i # j => wire[i] # wire[j]
    /\ \A t \in Threads :
            call[t].rawRequest.ok =>
                /\ MessageIdOf(call[t].rawRequest.val) = uuid4(call[t].draw).s
                /\ RequestDateOf(call[t].rawRequest.val) = isoformat(call[t].now).s
    /\ \A t, u \in Threads :
            (t # u /\ call[t].rawRequest.ok /\ call[u].rawRequest.ok) =>
                MessageIdOf(call[t].rawRequest.val) # MessageIdOf(call[u].rawRequest.val)

\* two calls are in flight at once, both transmitted, built at different times
C3_Witness ==
    /\ Len(wire) >= 2
    /\ \A t \in Threads : pc[t] = "transported"
    /\ \E t, u \in Threads : call[t].now # call[u].now

\* ------------------------------------------------------------------- C4

\* C4: a response whose status is not 2xx is never parsed and never returned:
\* the call fails with a transport error; and the request is not sent again.
C4_AsClaimed ==
    \A t \in Threads :
        /\ posts[t] <= 1
        /\ (call[t].rawResponse.ok /\ call[t].status \notin 200..299) =>
                /\ ~call[t].gatewayResponse.ok
                /\ ~call[t].result.ok
                /\ pc[t] \notin {"parsed", "returned"}

\* ------------------------------------------------------------------- C5

RECURSIVE Materialized(_)
\* the read-only tree a JSON value is expected to materialize as
Materialized(v) ==
    CASE v.t = "obj" ->
            [t |-> "tuple", d |-> [i \in 1..Len(v.d) |-> <<v.d[i][1], Materialized(v.d[i][2])>>]]
      [] v.t = "list" -> PyList([i \in 1..Len(v.es) |-> Materialized(v.es[i])])
      [] OTHER -> v

LacksResponseData(text) ==
    \E v \in ServerValues :
        text = Emit(v) /\ ~(v.t = "obj" /\ HasKey(v.d, "responseData"))

\* C6: when the parsed response has no responseData member (an object
\* without the key, an array, a scalar), the call returns nothing and ends by
\* raising AttributeError.
C6_MissingResponseDataRaises ==
    \A t \in Threads :
        (call[t].gatewayResponse.ok /\ LacksResponseData(call[t].rawResponse.val)) =>
            /\ pc[t] \in {"parsed", "raised"}
            /\ ~call[t].result.ok
            /\ pc[t] = "raised" => call[t].error = "AttributeError"

\* a call parsed a JSON object that has no responseData member and raised
C6_Witness ==
    \E t \in Threads :
        /\ pc[t] = "raised"
        /\ call[t].error = "AttributeError"
        /\ call[t].gatewayResponse.ok
        /\ LacksResponseData(call[t].rawResponse.val)
        /\ call[t].gatewayResponse.val.t = "tuple"

\* ------------------------------------------------------------------- C7

\* the defaults documented for every report request
HasDocumentedDefaults(d) ==
    /\ \A k \in {"pagingEnabled", "pageSize", "pageIndex", "fromStaff", "fromPortal",
                 "exportEnabled", "sorters"} : HasKey(d, k)
    /\ Get(d, "pagingEnabled") = PyBool(TRUE)
    /\ Get(d, "pageSize") = PyInt(10)
    /\ Get(d, "pageIndex") = PyInt(0)
    /\ Get(d, "fromStaff") = PyBool(FALSE)
    /\ Get(d, "fromPortal") = PyBool(FALSE)
    /\ Get(d, "exportEnabled") = PyBool(FALSE)
    /\ Get(d, "sorters") = PyList(<< >>)
    /\ \A i \in 1..Len(d) :
            d[i][1] \notin {"pagingEnabled", "pageSize", "pageIndex", "dateType"} =>
                d[i][2] \in {None, PyList(<< >>), PyBool(FALSE)}

\* every field of the parent class is present with the parent's default
InheritsFrom(d, parent) ==
    \A i \in 1..Len(parent) : HasKey(d, parent[i][1]) /\ Get(d, parent[i][1]) = parent[i][2]

\* C7: every report-request constructor returns an object holding the
\* documented defaults, and the constructors of the trip-transaction lineage
\* return objects holding every trip-transaction field with its default.
C7_AsClaimed ==
    [][\A cls \in ReportRequestClasses :
            Construct(cls) =>
                \A s \in Slots :
                    /\ obj'[s].ok
                    /\ HasDocumentedDefaults(obj'[s].val.d)
                    /\ cls \in {"DriverTripSummaryReportRequest",
                                "DriverCreditDebitReportRequest"} =>
                            InheritsFrom(obj'[s].val.d,
                                         DriverTripTransactionReportRequest.val.d)]_vars

\* ------------------------------------------------------------------- C8

\* C8: the ActionType a call sends is an enumerant that has exactly one
\* report-request class and exactly one wrapper sending it.
C8_AsClaimed ==
    \A t \in Threads :
        pc[t] # "idle" =>
            /\ call[t].actionType \in ActionType
            /\ Cardinality(RequestVariants(call[t].actionType)) = 1
            /\ RequestVariants(call[t].actionType) \subseteq ReportRequestClasses
            /\ Cardinality({w \in Wrappers : FetchTag(w) = call[t].actionType}) = 1

\* ------------------------------------------------------------------- C9

RECURSIVE SameValue(_, _)
\* the same field names with the same values, whatever the assignment order;
\* lists are compared in order
SameValue(x, y) ==
    IF x.t # y.t THEN FALSE
    ELSE CASE x.t = "obj" ->
                /\ {x.d[i][1] : i \in 1..Len(x.d)} = {y.d[i][1] : i \in 1..Len(y.d)}
                /\ \A i \in 1..Len(x.d) : SameValue(x.d[i][2], Get(y.d, x.d[i][1]))
           [] x.t = "list" ->
                /\ Len(x.es) = Len(y.es)
                /\ \A i \in 1..Len(x.es) : SameValue(x.es[i], y.es[i])
           [] OTHER -> x = y

RECURSIVE KeysAscend(_)
\* in a tree read back from a text, whose objects list their members in text
\* order: inside every object the keys strictly ascend in str order
KeysAscend(v) ==
    CASE v.t = "tuple" ->
            /\ \A i \in 1..(Len(v.d) - 1) : Rank(v.d[i][1]) < Rank(v.d[i + 1][1])
            /\ \A i \in 1..Len(v.d) : KeysAscend(v.d[i][2])
      [] v.t = "list" -> \A i \in 1..Len(v.es) : KeysAscend(v.es[i])
      [] OTHER -> TRUE

\* the sort fields in the order the text lists them
SortFieldsIn(text) ==
    LET at == SelectSeq([i \in 1..Len(text) |-> i],
                        LAMBDA i : i > 2 /\ text[i - 2] = StrTok("field")
                                         /\ text[i - 1] = Punct(":"))
    IN  [n \in 1..Len(at) |-> text[at[n]].s]

SortFieldsOf(o) ==
    LET es == Get(o.d, "sorters").es
    IN  [n \in 1..Len(es) |-> Get(es[n].d, "field").s]

\* C9: two report requests with the same field names and values serialize to
\* the same text whatever the order their fields were assigned in; object
\* keys ascend at every nesting level; sorters appear in insertion order.
C9_DeterministicSerialization ==
    /\ \A s, u \in Slots :
            (out[s].ok /\ out[u].ok /\ SameValue(obj[s].val, obj[u].val)) =>
                out[s].val = out[u].val
    /\ \A s \in Slots :
            out[s].ok =>
                /\ Loads(out[s].val).ok
                /\ KeysAscend(Loads(out[s].val).val)
                /\ SortFieldsIn(out[s].val) = SortFieldsOf(obj[s].val)

\* two requests with the same fields assigned in different orders, each with
\* two sorters on different fields, have been serialized
C9_Witness ==
    /\ out["a"].ok
    /\ out["b"].ok
    /\ SameValue(obj["a"].val, obj["b"].val)
    /\ Keys(obj["a"].val.d) # Keys(obj["b"].val.d)
    /\ SortFieldsOf(obj["a"].val) = <<"transactionId", "driverId">>

\* ------------------------------------------------------------------ C10

Missing(x) == x = None \/ x = PyStr("")

\* C10: with a configuration whose serviceEndpoint or hmacSecret is missing
\* (None or empty), every call fails before any network activity: no call
\* hands a request to the network.
C10_AsClaimed ==
    (Missing(config.serviceEndpoint) \/ Missing(config.hmacSecret)) =>
        /\ wire = << >>
        /\ \A t \in Threads : ~call[t].posted.sent

====
